---- MODULE Spec2Model ----
(***************************************************************************)
(* Model of the two sigrok protocol decoders of this repository:           *)
(*   decoders/elegiant_eox9906/pd.py  (OOK weather-station frames)         *)
(*   decoders/hpil/pd.py              (HP-IL bipolar pulses)               *)
(*                                                                         *)
(* A decoder is a sequential program over a finite sample stream.  The     *)
(* stream is kept in run-length form (a list of pin changes), the host's   *)
(* wait() primitive is an operator over it, every method of a decoder is   *)
(* an operator from the decoder object to the decoder object and a return  *)
(* value, and one pass of the dispatch loop of decode() is one action.     *)
(***************************************************************************)
EXTENDS Integers, Sequences, FiniteSets, TLC

VARIABLES
    decoder,     \* which of the two decoders runs: "ook" or "hpil"
    stream,      \* the input: [ev: pin changes <<t, ch, v>>, len: number of samples]
    self,        \* the Decoder object and the host's read position
    last         \* the handler that ran last, its entry point and its locals

vars == <<decoder, stream, self, last>>

None == <<>>

MinOf(S) == CHOOSE i \in S : \A j \in S : i <= j

Abs(x) == IF x < 0 THEN -x ELSE x

\* a local variable: K applied to the value of v, which is computed once
Bind(v, K(_)) == CHOOSE r \in {K(x) : x \in {v}} : TRUE

(***************************************************************************)
(* Python floats.  A non-negative double is held exactly, as NumLimbs      *)
(* base-256 digits of which the first IntLimbs are the integer part; an    *)
(* operation computes the exact result and rounds it to MantBits           *)
(* significant bits, ties to even, as IEEE-754 does.                       *)
(***************************************************************************)
MantBits == 53
LimbBits == 8
Base == 256
IntLimbs == 2
NumLimbs == 11

Pow2 == [k \in 0..LimbBits |->
            CASE k = 0 -> 1 [] k = 1 -> 2 [] k = 2 -> 4 [] k = 3 -> 8 [] k = 4 -> 16
              [] k = 5 -> 32 [] k = 6 -> 64 [] k = 7 -> 128 [] OTHER -> 256]

BitLen(x) == IF x >= 128 THEN 8 ELSE IF x >= 64 THEN 7 ELSE IF x >= 32 THEN 6
             ELSE IF x >= 16 THEN 5 ELSE IF x >= 8 THEN 4 ELSE IF x >= 4 THEN 3
             ELSE IF x >= 2 THEN 2 ELSE x

\* v with its limbs after limb gl cleared and limb gl cut to its bits above bit go,
\* then rounded up by one unit of the last kept bit when up holds
RoundLimb(v, gl, go, up) ==
    Bind([j \in 1..NumLimbs |->
            IF j < gl THEN v[j]
            ELSE IF j = gl THEN (v[gl] \div Pow2[LimbBits - go]) * Pow2[LimbBits - go]
            ELSE 0], LAMBDA K :
    Bind(IF go > 0 THEN gl ELSE gl - 1, LAMBDA t :
    Bind(IF go > 0 THEN Pow2[LimbBits - go] ELSE 1, LAMBDA u :
        IF ~up THEN K
        ELSE [j \in 1..NumLimbs |->
                IF j > t THEN 0
                ELSE IF j = t THEN (K[t] + u) % Base
                ELSE IF K[t] + u >= Base /\ \A m \in (j + 1)..(t - 1) : K[m] = Base - 1
                     THEN (K[j] + 1) % Base
                     ELSE K[j]])))

\* v rounded to MantBits significant bits; sticky: a nonzero part lies below the last limb
Round53(v, sticky) ==
    IF \A j \in 1..NumLimbs : v[j] = 0 THEN v
    ELSE
    Bind(MinOf({j \in 1..NumLimbs : v[j] # 0}), LAMBDA li :
    Bind(LimbBits * (li - 1) + (LimbBits - BitLen(v[li])) + 1 + MantBits, LAMBDA g :
        IF g > LimbBits * NumLimbs THEN v
        ELSE
        Bind(((g - 1) \div LimbBits) + 1, LAMBDA gl :
        Bind((g - 1) % LimbBits, LAMBDA go :
        Bind(v[gl], LAMBDA x :
            LET guard == (x \div Pow2[LimbBits - 1 - go]) % 2
                st    == \/ sticky
                         \/ (x % Pow2[LimbBits - 1 - go]) # 0
                         \/ \E j \in (gl + 1)..NumLimbs : v[j] # 0
                lsb   == IF go > 0 THEN (x \div Pow2[LimbBits - go]) % 2 ELSE v[gl - 1] % 2
            IN  RoundLimb(v, gl, go, guard = 1 /\ (st \/ lsb = 1)))))))

RECURSIVE DivDigits(_, _, _)
DivDigits(r, d, k) ==
    IF k = 0 THEN << IF r = 0 THEN 0 ELSE 1 >>
    ELSE Bind(r * Base, LAMBDA x : <<x \div d>> \o DivDigits(x % d, d, k - 1))

\* int / int, Python's true division: the quotient correctly rounded
FDiv(n, d) ==
    Bind(DivDigits(n % d, d, NumLimbs - IntLimbs), LAMBDA ds :
    Bind(<<(n \div d) \div Base, (n \div d) % Base>> \o SubSeq(ds, 1, NumLimbs - IntLimbs),
         LAMBDA v :
        Round53(v, ds[NumLimbs - IntLimbs + 1] = 1)))

FLess(a, b) ==
    Bind({i \in 1..NumLimbs : a[i] # b[i]}, LAMBDA D :
        D # {} /\ a[MinOf(D)] < b[MinOf(D)])

\* a - b for a >= b
FSubMag(a, b) ==
    Bind([j \in 1..NumLimbs |->
            Bind({k \in (j + 1)..NumLimbs : a[k] # b[k]}, LAMBDA D :
                IF D # {} /\ a[MinOf(D)] < b[MinOf(D)]
                THEN (a[j] - b[j] - 1 + Base) % Base
                ELSE (a[j] - b[j] + Base) % Base)], LAMBDA v :
        Round53(v, FALSE))

\* math.fabs(a - b)
FAbsDiff(a, b) == IF FLess(a, b) THEN FSubMag(b, a) ELSE FSubMag(a, b)

RECURSIVE MulDigits(_, _, _, _)
MulDigits(v, n, j, c) ==
    IF j = 0 THEN <<>>
    ELSE Bind(v[j] * n + c, LAMBDA x : Append(MulDigits(v, n, j - 1, x \div Base), x % Base))

\* int * float
FMulInt(n, v) == Bind(MulDigits(v, n, NumLimbs, 0), LAMBDA p : Round53(p, FALSE))

\* math.floor
FFloor(v) == v[1] * Base + v[2]

\* the float literals of the two decoders
F0_2 == FDiv(2, 10)
F0_5 == FDiv(5, 10)
F1_0 == FDiv(1, 1)
F2_0 == FDiv(2, 1)
F0_85 == FDiv(85, 100)
F15 == FDiv(15, 1)

(***************************************************************************)
(* The host's wait primitive over the run-length stream.  self.cur is the  *)
(* next sample wait() examines (one past the last match), self.k the       *)
(* number of pin changes before it and self.old the pin values at the      *)
(* sample before it.  A condition is a sequence of terms, [ch, e] for a    *)
(* level or an edge on a channel and [skip] for a sample count; it holds   *)
(* at a sample where all its terms hold; wait returns at the first sample  *)
(* where one condition holds, and raises at the end of the stream.         *)
(***************************************************************************)
Term(ch, e) == [ch |-> ch, e |-> e]
Skip(n) == [skip |-> n]

TermHolds(term, old, new, t, base) ==
    IF "skip" \in DOMAIN term THEN t >= base + term.skip
    ELSE LET o == old[term.ch + 1]
             n == new[term.ch + 1]
         IN  CASE term.e = "h" -> n = 1
               [] term.e = "l" -> n = 0
               [] term.e = "r" -> o = 0 /\ n = 1
               [] term.e = "f" -> o = 1 /\ n = 0
               [] term.e = "e" -> o # n
               [] term.e = "n" -> o = n

Raised(s) == s.pc # "run"

\* the next sample worth examining after sample t, at which no condition held
NextSample(conds, base, t, k2, hasEv) ==
    IF hasEv THEN t + 1
    ELSE MinOf((IF k2 < Len(stream.ev) THEN {stream.ev[k2 + 1][1]} ELSE {})
               \cup UNION {{base + conds[c][i].skip :
                              i \in {i \in 1..Len(conds[c]) :
                                       /\ "skip" \in DOMAIN conds[c][i]
                                       /\ base + conds[c][i].skip > t}} :
                           c \in 1..Len(conds)}
               \cup {stream.len})

RECURSIVE WaitFrom(_, _, _, _, _, _)
WaitFrom(s, conds, base, t, k, old) ==
    IF t >= stream.len
    THEN [s EXCEPT !.pc = "eof", !.cur = stream.len, !.k = k, !.old = old]
    ELSE
    Bind(k < Len(stream.ev) /\ stream.ev[k + 1][1] = t, LAMBDA hasEv :
    Bind(IF hasEv THEN [old EXCEPT ![stream.ev[k + 1][2] + 1] = stream.ev[k + 1][3]] ELSE old,
         LAMBDA new :
    Bind(IF hasEv THEN k + 1 ELSE k, LAMBDA k2 :
    Bind([c \in 1..Len(conds) |->
            \A i \in 1..Len(conds[c]) : TermHolds(conds[c][i], old, new, t, base)],
         LAMBDA matched :
        IF \E c \in 1..Len(conds) : matched[c]
        THEN [s EXCEPT !.samplenum = t, !.matched = matched, !.pins = new,
                       !.cur = t + 1, !.k = k2, !.old = new]
        ELSE Bind(NextSample(conds, base, t, k2, hasEv), LAMBDA t2 :
                WaitFrom(s, conds, base, t2, k2, new))))))

wait(s, conds) ==
    IF Raised(s) THEN s ELSE WaitFrom(s, conds, s.samplenum, s.cur, s.k, s.old)

\* self.put(ss, es, self.out_ann, [row, [text]]): text is a format and its arguments
put(s, ss, es, row, fmt, args) ==
    [s EXCEPT !.ann = Append(@, [ss |-> ss, es |-> es, row |-> row, fmt |-> fmt, args |-> args])]

(***************************************************************************)
(* decoders/elegiant_eox9906/pd.py                                         *)
(***************************************************************************)
\* Python's & | << >> on non-negative integers
RECURSIVE BitAnd(_, _)
BitAnd(a, b) == IF a = 0 \/ b = 0 THEN 0
                ELSE (a % 2) * (b % 2) + 2 * BitAnd(a \div 2, b \div 2)

RECURSIVE BitOr(_, _)
BitOr(a, b) == IF a = 0 THEN b ELSE IF b = 0 THEN a
               ELSE (IF a % 2 = 1 \/ b % 2 = 1 THEN 1 ELSE 0) + 2 * BitOr(a \div 2, b \div 2)

Shl(a, n) == a * Pow2[n]
Shr(a, n) == a \div Pow2[n]

ook_reset(s) == [s EXCEPT !.state = "START"]

duration_millis(s, ss, es) == FDiv(1000 * (es - ss), s.samplerate)

\* classify_pulse with the on time compared as >= 0.2 instead of > 0.2
classify_pulse_strict_on(s, start, fall, end_of_pause) ==
    Bind(duration_millis(s, start, fall), LAMBDA on_pulse_millis :
    Bind(FAbsDiff(on_pulse_millis, F0_5), LAMBDA on_off :
        IF ~FLess(on_off, F0_2) THEN None
        ELSE
        Bind(duration_millis(s, fall, end_of_pause), LAMBDA pause_millis :
        Bind(FAbsDiff(pause_millis, F2_0), LAMBDA long_off :
        Bind(FAbsDiff(pause_millis, F1_0), LAMBDA short_off :
            IF FLess(long_off, F0_2) THEN <<1, start, end_of_pause>>
            ELSE IF FLess(short_off, F0_2) THEN <<0, start, end_of_pause>>
            ELSE None)))))

\* the classification of a measured pulse: lines 157-171
classify_pulse(s, start, fall, end_of_pause) ==
    Bind(duration_millis(s, start, fall), LAMBDA on_pulse_millis :
    Bind(FAbsDiff(on_pulse_millis, F0_5), LAMBDA on_off :
        IF FLess(F0_2, on_off) THEN None
        ELSE
        Bind(duration_millis(s, fall, end_of_pause), LAMBDA pause_millis :
        Bind(FAbsDiff(pause_millis, F2_0), LAMBDA long_off :
        Bind(FAbsDiff(pause_millis, F1_0), LAMBDA short_off :
            IF FLess(long_off, F0_2) THEN <<1, start, end_of_pause>>
            ELSE IF FLess(short_off, F0_2) THEN <<0, start, end_of_pause>>
            ELSE None)))))

\* meas: the samples start, fall and end_of_pause the pulse was measured at
try_decode_pulse(s) ==
    Bind(wait(s, << <<Term(0, "h")>> >>), LAMBDA s1 :
    Bind(wait(s1, << <<Term(0, "n")>> >>), LAMBDA s2 :
    Bind(wait(s2, << <<Term(0, "f")>> >>), LAMBDA s3 :
    Bind(wait(s3, << <<Term(0, "r")>> >>), LAMBDA s4 :
        IF Raised(s4) THEN [self |-> s4, ret |-> None, meas |-> None]
        ELSE
        Bind([s4 EXCEPT !.samplenum = @ - 1], LAMBDA s5 :
            [self |-> s5,
             ret  |-> classify_pulse(s5, s2.samplenum, s3.samplenum, s5.samplenum),
             meas |-> <<s2.samplenum, s3.samplenum, s5.samplenum>>])))))

\* the loop of require_n_pulses annotating each pulse from its end to its start
RECURSIVE require_loop_swapped(_, _, _, _, _)
require_loop_swapped(s, n, p, i, result) ==
    IF p # None /\ i < n
    THEN Bind(put(s, p[3], p[2], 0, "%d", <<p[1]>>), LAMBDA s1 :
         Bind(IF i + 1 > 0 /\ i + 1 < n THEN try_decode_pulse(s1)
              ELSE [self |-> s1, ret |-> p], LAMBDA t :
            IF Raised(t.self) THEN [self |-> t.self, ret |-> None]
            ELSE require_loop_swapped(t.self, n, t.ret, i + 1, Append(result, p))))
    ELSE IF Len(result) = n THEN [self |-> s, ret |-> result]
    ELSE [self |-> ook_reset(s), ret |-> None]

\* the while loop of require_n_pulses, entered with p, i and result
RECURSIVE require_loop(_, _, _, _, _)
require_loop(s, n, p, i, result) ==
    IF p # None /\ i < n
    THEN Bind(put(s, p[2], p[3], 0, "%d", <<p[1]>>), LAMBDA s1 :
         Bind(IF i + 1 > 0 /\ i + 1 < n THEN try_decode_pulse(s1)
              ELSE [self |-> s1, ret |-> p], LAMBDA t :
            IF Raised(t.self) THEN [self |-> t.self, ret |-> None]
            ELSE require_loop(t.self, n, t.ret, i + 1, Append(result, p))))
    ELSE IF Len(result) = n THEN [self |-> s, ret |-> result]
    ELSE [self |-> ook_reset(s), ret |-> None]

require_n_pulses(s, n) ==
    Bind(try_decode_pulse(s), LAMBDA t :
        IF Raised(t.self) THEN [self |-> t.self, ret |-> None]
        ELSE require_loop(t.self, n, t.ret, 0, <<>>))

\* the for loop of decode_byte: b = b + (bit << i) for i = 7 down to 0
RECURSIVE byte_loop(_, _, _, _)
byte_loop(ps, j, b, i) ==
    IF j > Len(ps) THEN b
    ELSE byte_loop(ps, j + 1, b + Shl(ps[j][1], i), i - 1)

\* decode_byte taking the first pulse as the least significant bit
decode_byte_lsb_first(s) ==
    Bind(require_n_pulses(s, 8), LAMBDA r :
        IF Raised(r.self) THEN [self |-> r.self, ret |-> None]
        ELSE IF r.ret # None
        THEN Bind(r.ret, LAMBDA ps :
             Bind(byte_loop([j \in 1..Len(ps) |-> ps[Len(ps) + 1 - j]], 1, 0, 7), LAMBDA b :
                [self |-> put(r.self, ps[1][2], ps[Len(ps)][3], 1, "%d", <<b>>),
                 ret  |-> <<b, ps[1][2], ps[Len(ps)][3]>>]))
        ELSE [self |-> ook_reset(r.self), ret |-> None])

decode_byte(s) ==
    Bind(require_n_pulses(s, 8), LAMBDA r :
        IF Raised(r.self) THEN [self |-> r.self, ret |-> None]
        ELSE IF r.ret # None
        THEN Bind(r.ret, LAMBDA ps :
             Bind(byte_loop(ps, 1, 0, 7), LAMBDA b :
                [self |-> put(r.self, ps[1][2], ps[Len(ps)][3], 1, "%d", <<b>>),
                 ret  |-> <<b, ps[1][2], ps[Len(ps)][3]>>]))
        ELSE [self |-> ook_reset(r.self), ret |-> None])

\* decode_payload with a temperature of twelve bits: the low four of b1 above all of b2
decode_payload_12_bits(s, b0i, b1i, b2i, b3i) ==
    Bind(put(s, b0i[2], b0i[3], 2,
             IF BitAnd(b0i[1], 8) # 0 THEN "ch%d batok" ELSE "ch%d batlow",
             <<BitAnd(b0i[1], 3)>>), LAMBDA s1 :
    Bind(BitOr(Shl(BitAnd(b1i[1], 15), 8), b2i[1]), LAMBDA t :
    Bind(put(s1, b1i[2], b2i[3], 2, "T%d.%dC", <<t \div 10, t % 10>>), LAMBDA s2 :
        put(s2, b3i[2], b3i[3], 2, "RH%d%%", <<b3i[1]>>))))

\* decode_payload with the channel taken from three bits of b0
decode_payload_wide_channel(s, b0i, b1i, b2i, b3i) ==
    Bind(put(s, b0i[2], b0i[3], 2,
             IF BitAnd(b0i[1], 8) # 0 THEN "ch%d batok" ELSE "ch%d batlow",
             <<BitAnd(b0i[1], 7)>>), LAMBDA s1 :
    Bind(BitOr(Shl(BitAnd(b1i[1], 15), 4), BitAnd(Shr(b2i[1], 4), 15)), LAMBDA t :
    Bind(put(s1, b1i[2], b2i[3], 2, "T%d.%dC", <<t \div 10, t % 10>>), LAMBDA s2 :
        put(s2, b3i[2], b3i[3], 2, "RH%d%%", <<b3i[1]>>))))

\* an annotation text is a format and its arguments; the temperature t / 10.0 of
\* line 106 is held as its tenths, f"T{t}C" as "T%d.%dC" of t div 10 and t mod 10
decode_payload(s, b0i, b1i, b2i, b3i) ==
    Bind(put(s, b0i[2], b0i[3], 2,
             IF BitAnd(b0i[1], 8) # 0 THEN "ch%d batok" ELSE "ch%d batlow",
             <<BitAnd(b0i[1], 3)>>), LAMBDA s1 :
    Bind(BitOr(Shl(BitAnd(b1i[1], 15), 4), BitAnd(Shr(b2i[1], 4), 15)), LAMBDA t :
    Bind(put(s1, b1i[2], b2i[3], 2, "T%d.%dC", <<t \div 10, t % 10>>), LAMBDA s2 :
        put(s2, b3i[2], b3i[3], 2, "RH%d%%", <<b3i[1]>>))))

\* decode_data emitting the channel/battery annotation as soon as byte 0 is there
decode_data_eager(s) ==
    Bind(decode_byte(s), LAMBDA r0 :
    Bind(decode_byte(r0.self), LAMBDA r1 :
    Bind(decode_byte(r1.self), LAMBDA r2 :
    Bind(decode_byte(r2.self), LAMBDA r3 :
    Bind(<<r0.ret, r1.ret, r2.ret, r3.ret>>, LAMBDA bs :
        IF Raised(r3.self) THEN [self |-> r3.self, ret |-> bs]
        ELSE IF r0.ret # None
        THEN [self |-> ook_reset(put(r3.self, r0.ret[2], r0.ret[3], 2, "ch%d batlow",
                                     <<BitAnd(r0.ret[1], 3)>>)),
              ret  |-> bs]
        ELSE [self |-> ook_reset(r3.self), ret |-> bs])))))

decode_data(s) ==
    Bind(decode_byte(s), LAMBDA r0 :
    Bind(decode_byte(r0.self), LAMBDA r1 :
    Bind(decode_byte(r1.self), LAMBDA r2 :
    Bind(decode_byte(r2.self), LAMBDA r3 :
    Bind(<<r0.ret, r1.ret, r2.ret, r3.ret>>, LAMBDA bs :
        IF Raised(r3.self) THEN [self |-> r3.self, ret |-> bs]
        ELSE IF r0.ret # None /\ r1.ret # None /\ r2.ret # None /\ r3.ret # None
        THEN [self |-> ook_reset(decode_payload(r3.self, r0.ret, r1.ret, r2.ret, r3.ret)),
              ret  |-> bs]
        ELSE [self |-> ook_reset(r3.self), ret |-> bs])))))

\* decode_start asking for any symbol 1 instead of all
decode_start_any(s) ==
    Bind(require_n_pulses(s, 4), LAMBDA r :
        IF Raised(r.self) THEN [self |-> r.self, ret |-> None]
        ELSE IF r.ret # None
        THEN Bind(r.ret, LAMBDA ps :
                IF \E j \in 1..Len(ps) : ps[j][1] = 1
                THEN [self |-> [put(r.self, ps[1][2], ps[Len(ps)][3], 1, "SOF", <<>>)
                                   EXCEPT !.state = "DATA"],
                      ret  |-> ps]
                ELSE [self |-> ook_reset(r.self), ret |-> ps])
        ELSE [self |-> ook_reset(r.self), ret |-> None])

\* decode_start emitting SOF for any four classified pulses, before it looks at them
decode_start_sof_first(s) ==
    Bind(require_n_pulses(s, 4), LAMBDA r :
        IF Raised(r.self) THEN [self |-> r.self, ret |-> None]
        ELSE IF r.ret # None
        THEN Bind(r.ret, LAMBDA ps :
             Bind(put(r.self, ps[1][2], ps[Len(ps)][3], 1, "SOF", <<>>), LAMBDA s1 :
                IF \A j \in 1..Len(ps) : ps[j][1] = 1
                THEN [self |-> [s1 EXCEPT !.state = "DATA"], ret |-> ps]
                ELSE [self |-> ook_reset(s1), ret |-> ps]))
        ELSE [self |-> ook_reset(r.self), ret |-> None])

decode_start(s) ==
    Bind(require_n_pulses(s, 4), LAMBDA r :
        IF Raised(r.self) THEN [self |-> r.self, ret |-> None]
        ELSE IF r.ret # None
        THEN Bind(r.ret, LAMBDA ps :
                IF \A j \in 1..Len(ps) : ps[j][1] = 1
                THEN [self |-> [put(r.self, ps[1][2], ps[Len(ps)][3], 1, "SOF", <<>>)
                                   EXCEPT !.state = "DATA"],
                      ret  |-> ps]
                ELSE [self |-> ook_reset(r.self), ret |-> ps])
        ELSE [self |-> ook_reset(r.self), ret |-> None])

(***************************************************************************)
(* decoders/hpil/pd.py                                                     *)
(***************************************************************************)
hpil_reset(s) ==
    [s EXCEPT !.state = "START", !.ss = None, !.es = None, !.pulse_width = None,
              !.num_decoded_bits = None, !.message = <<>>]

putx(s, row, fmt, args) == put(s, s.ss, s.es, row, fmt, args)

message_bit(s, b) == [s EXCEPT !.message = Append(@, <<s.ss, s.es, b>>)]

\* one_pulse waiting for the rise, the fall and the rise of the channel that fell first
one_pulse_same_channel(s) ==
    Bind(wait(s, << <<Term(0, "h"), Term(1, "f")>>, <<Term(1, "h"), Term(0, "f")>> >>),
         LAMBDA s1 :
        IF Raised(s1) THEN [self |-> s1, ret |-> None, waits |-> None]
        ELSE IF s1.pins[1] = 0
        THEN Bind(wait(s1, << <<Term(0, "r"), Term(1, "h")>> >>), LAMBDA s2 :
             Bind(wait(s2, << <<Term(0, "f"), Term(1, "h")>> >>), LAMBDA s3 :
             Bind(wait(s3, << <<Term(0, "r"), Term(1, "h")>> >>), LAMBDA s4 :
                [self  |-> s4,
                 ret   |-> IF Raised(s4) THEN None
                           ELSE <<s1.samplenum, s4.samplenum, <<-1>> >>,
                 waits |-> IF Raised(s4) THEN None
                           ELSE <<s1.samplenum, s2.samplenum, s3.samplenum, s4.samplenum>>])))
        ELSE IF s1.pins[2] = 0
        THEN Bind(wait(s1, << <<Term(1, "r"), Term(0, "h")>> >>), LAMBDA s2 :
             Bind(wait(s2, << <<Term(1, "f"), Term(0, "h")>> >>), LAMBDA s3 :
             Bind(wait(s3, << <<Term(1, "r"), Term(0, "h")>> >>), LAMBDA s4 :
                [self  |-> s4,
                 ret   |-> IF Raised(s4) THEN None
                           ELSE <<s1.samplenum, s4.samplenum, <<1>> >>,
                 waits |-> IF Raised(s4) THEN None
                           ELSE <<s1.samplenum, s2.samplenum, s3.samplenum, s4.samplenum>>])))
        ELSE [self |-> s1, ret |-> <<s1.samplenum, s1.samplenum, None>>, waits |-> None])

\* returns <<start, end, polarity>>, the polarity <<-1>>, <<1>> or None; waits: the
\* samples at which its four waits returned
one_pulse(s) ==
    Bind(wait(s, << <<Term(0, "h"), Term(1, "f")>>, <<Term(1, "h"), Term(0, "f")>> >>),
         LAMBDA s1 :
        IF Raised(s1) THEN [self |-> s1, ret |-> None, waits |-> None]
        ELSE IF s1.pins[1] = 0
        THEN Bind(wait(s1, << <<Term(0, "r"), Term(1, "h")>> >>), LAMBDA s2 :
             Bind(wait(s2, << <<Term(0, "h"), Term(1, "f")>> >>), LAMBDA s3 :
             Bind(wait(s3, << <<Term(0, "h"), Term(1, "r")>> >>), LAMBDA s4 :
                [self  |-> s4,
                 ret   |-> IF Raised(s4) THEN None
                           ELSE <<s1.samplenum, s4.samplenum, <<-1>> >>,
                 waits |-> IF Raised(s4) THEN None
                           ELSE <<s1.samplenum, s2.samplenum, s3.samplenum, s4.samplenum>>])))
        ELSE IF s1.pins[2] = 0
        THEN Bind(wait(s1, << <<Term(1, "r"), Term(0, "h")>> >>), LAMBDA s2 :
             Bind(wait(s2, << <<Term(1, "h"), Term(0, "f")>> >>), LAMBDA s3 :
             Bind(wait(s3, << <<Term(1, "h"), Term(0, "r")>> >>), LAMBDA s4 :
                [self  |-> s4,
                 ret   |-> IF Raised(s4) THEN None
                           ELSE <<s1.samplenum, s4.samplenum, <<1>> >>,
                 waits |-> IF Raised(s4) THEN None
                           ELSE <<s1.samplenum, s2.samplenum, s3.samplenum, s4.samplenum>>])))
        ELSE [self |-> s1, ret |-> <<s1.samplenum, s1.samplenum, None>>, waits |-> None])

\* one_pause skipping the whole pulse width
one_pause_no_margin(s) ==
    IF Raised(s) THEN [self |-> s, ret |-> None]
    ELSE IF s.pulse_width = None THEN [self |-> [s EXCEPT !.pc = "error"], ret |-> None]
    ELSE
    Bind(s.pulse_width[1], LAMBDA to_skip :
    Bind(wait(s, << <<Skip(to_skip)>>, <<Term(1, "f")>>, <<Term(0, "f")>> >>), LAMBDA s1 :
        IF Raised(s1) THEN [self |-> s1, ret |-> None]
        ELSE [self |-> s1, ret |-> <<s.samplenum, s1.samplenum, s1.matched[1]>>]))

\* returns <<start, end, is_pause>>
one_pause(s) ==
    IF Raised(s) THEN [self |-> s, ret |-> None]
    ELSE IF s.pulse_width = None THEN [self |-> [s EXCEPT !.pc = "error"], ret |-> None]
    ELSE
    Bind(FMulInt(s.pulse_width[1], F0_85), LAMBDA product :
    Bind(FFloor(product), LAMBDA to_skip :
    Bind(wait(s, << <<Skip(to_skip)>>, <<Term(1, "f")>>, <<Term(0, "f")>> >>), LAMBDA s1 :
        IF Raised(s1) THEN [self |-> s1, ret |-> None]
        ELSE [self |-> s1, ret |-> <<s.samplenum, s1.samplenum, s1.matched[1]>>])))

\* one_bit that does not look at the pause
one_bit_any_pause(s) ==
    Bind(one_pause(s), LAMBDA r1 :
    Bind(one_pulse(r1.self), LAMBDA r2 :
        IF Raised(r2.self) THEN [self |-> r2.self, ret |-> None, parts |-> None]
        ELSE IF r2.ret[3] # None
        THEN [self  |-> r2.self,
              ret   |-> <<r1.ret[1], r2.ret[2], <<IF r2.ret[3][1] > 0 THEN 1 ELSE 0>> >>,
              parts |-> <<r1.ret, r2.ret>>]
        ELSE [self  |-> r2.self, ret |-> <<r1.ret[1], r2.ret[2], None>>,
              parts |-> <<r1.ret, r2.ret>>]))

\* returns <<start, end, bit>>, the bit <<0>>, <<1>> or None; parts: what its one_pause
\* and its one_pulse returned
one_bit(s) ==
    Bind(one_pause(s), LAMBDA r1 :
    Bind(one_pulse(r1.self), LAMBDA r2 :
        IF Raised(r2.self) THEN [self |-> r2.self, ret |-> None, parts |-> None]
        ELSE IF r1.ret[3] /\ r2.ret[3] # None
        THEN [self  |-> r2.self,
              ret   |-> <<r1.ret[1], r2.ret[2], <<IF r2.ret[3][1] > 0 THEN 1 ELSE 0>> >>,
              parts |-> <<r1.ret, r2.ret>>]
        ELSE [self  |-> r2.self, ret |-> <<r1.ret[1], r2.ret[2], None>>,
              parts |-> <<r1.ret, r2.ret>>]))

\* handle_start rejecting a difference of 15% or more instead of more than 15%
handle_start_ge(s) ==
    Bind(one_pulse([s EXCEPT !.message = <<>>]), LAMBDA r0 :
    Bind(one_pulse(r0.self), LAMBDA r1 :
        IF Raised(r1.self) THEN [self |-> r1.self, ret |-> None]
        ELSE
        Bind(r0.ret[2] - r0.ret[1], LAMBDA dp0 :
        Bind(r1.ret[2] - r1.ret[1], LAMBDA dp1 :
            IF dp0 = 0 THEN [self |-> [r1.self EXCEPT !.pc = "error"], ret |-> None]
            ELSE
            Bind(FDiv(Abs(dp0 - dp1) * 100, dp0), LAMBDA dpdiff_percent :
                IF \/ r0.ret[3] = None
                   \/ r1.ret[3] = None
                   \/ r0.ret[3] # r1.ret[3]
                   \/ ~FLess(dpdiff_percent, F15)
                THEN [self |-> [r1.self EXCEPT !.state = "START"], ret |-> <<r0.ret, r1.ret>>]
                ELSE
                Bind(IF r0.ret[3][1] > 0 THEN 1 ELSE 0, LAMBDA bit0 :
                    [self |-> putx(message_bit([r1.self EXCEPT !.ss = r0.ret[1],
                                                               !.es = r1.ret[2],
                                                               !.pulse_width = <<dp0>>,
                                                               !.state = "DATA"],
                                               bit0),
                                   0, "%d", <<bit0>>),
                     ret  |-> <<r0.ret, r1.ret>>]))))))

\* handle_start that does not set pulse_width
handle_start_no_width(s) ==
    Bind(one_pulse([s EXCEPT !.message = <<>>]), LAMBDA r0 :
    Bind(one_pulse(r0.self), LAMBDA r1 :
        IF Raised(r1.self) THEN [self |-> r1.self, ret |-> None]
        ELSE
        Bind(r0.ret[2] - r0.ret[1], LAMBDA dp0 :
        Bind(r1.ret[2] - r1.ret[1], LAMBDA dp1 :
            IF dp0 = 0 THEN [self |-> [r1.self EXCEPT !.pc = "error"], ret |-> None]
            ELSE
            Bind(FDiv(Abs(dp0 - dp1) * 100, dp0), LAMBDA dpdiff_percent :
                IF \/ r0.ret[3] = None
                   \/ r1.ret[3] = None
                   \/ r0.ret[3] # r1.ret[3]
                   \/ FLess(F15, dpdiff_percent)
                THEN [self |-> [r1.self EXCEPT !.state = "START"], ret |-> <<r0.ret, r1.ret>>]
                ELSE
                Bind(IF r0.ret[3][1] > 0 THEN 1 ELSE 0, LAMBDA bit0 :
                    [self |-> putx(message_bit([r1.self EXCEPT !.ss = r0.ret[1],
                                                               !.es = r1.ret[2],
                                                               !.state = "DATA"],
                                               bit0),
                                   0, "%d", <<bit0>>),
                     ret  |-> <<r0.ret, r1.ret>>]))))))

\* handle_start without self.message = []
handle_start_keep(s) ==
    Bind(one_pulse(s), LAMBDA r0 :
    Bind(one_pulse(r0.self), LAMBDA r1 :
        IF Raised(r1.self) THEN [self |-> r1.self, ret |-> None]
        ELSE
        Bind(r0.ret[2] - r0.ret[1], LAMBDA dp0 :
        Bind(r1.ret[2] - r1.ret[1], LAMBDA dp1 :
            IF dp0 = 0 THEN [self |-> [r1.self EXCEPT !.pc = "error"], ret |-> None]
            ELSE
            Bind(FDiv(Abs(dp0 - dp1) * 100, dp0), LAMBDA dpdiff_percent :
                IF \/ r0.ret[3] = None
                   \/ r1.ret[3] = None
                   \/ r0.ret[3] # r1.ret[3]
                   \/ FLess(F15, dpdiff_percent)
                THEN [self |-> [r1.self EXCEPT !.state = "START"], ret |-> <<r0.ret, r1.ret>>]
                ELSE
                Bind(IF r0.ret[3][1] > 0 THEN 1 ELSE 0, LAMBDA bit0 :
                    [self |-> putx(message_bit([r1.self EXCEPT !.ss = r0.ret[1],
                                                               !.es = r1.ret[2],
                                                               !.pulse_width = <<dp0>>,
                                                               !.state = "DATA"],
                                               bit0),
                                   0, "%d", <<bit0>>),
                     ret  |-> <<r0.ret, r1.ret>>]))))))

\* ret: the two pulses <<p0s, p0e, p0>> and <<p1s, p1e, p1>>
handle_start(s) ==
    Bind(one_pulse([s EXCEPT !.message = <<>>]), LAMBDA r0 :
    Bind(one_pulse(r0.self), LAMBDA r1 :
        IF Raised(r1.self) THEN [self |-> r1.self, ret |-> None]
        ELSE
        Bind(r0.ret[2] - r0.ret[1], LAMBDA dp0 :
        Bind(r1.ret[2] - r1.ret[1], LAMBDA dp1 :
            IF dp0 = 0 THEN [self |-> [r1.self EXCEPT !.pc = "error"], ret |-> None]
            ELSE
            Bind(FDiv(Abs(dp0 - dp1) * 100, dp0), LAMBDA dpdiff_percent :
                IF \/ r0.ret[3] = None
                   \/ r1.ret[3] = None
                   \/ r0.ret[3] # r1.ret[3]
                   \/ FLess(F15, dpdiff_percent)
                THEN [self |-> [r1.self EXCEPT !.state = "START"], ret |-> <<r0.ret, r1.ret>>]
                ELSE
                Bind(IF r0.ret[3][1] > 0 THEN 1 ELSE 0, LAMBDA bit0 :
                    [self |-> putx(message_bit([r1.self EXCEPT !.ss = r0.ret[1],
                                                               !.es = r1.ret[2],
                                                               !.pulse_width = <<dp0>>,
                                                               !.state = "DATA"],
                                               bit0),
                                   0, "%d", <<bit0>>),
                     ret  |-> <<r0.ret, r1.ret>>]))))))

\* the loop of handle_data going on to the next one_bit after one that failed
RECURSIVE data_loop_continue(_, _)
data_loop_continue(s, decoded_data_bits) ==
    IF decoded_data_bits < 10
    THEN Bind(one_bit(s), LAMBDA r :
            IF Raised(r.self) THEN [self |-> r.self, n |-> decoded_data_bits, calls |-> 1]
            ELSE IF r.ret[3] = None
            THEN Bind(data_loop_continue(r.self, decoded_data_bits), LAMBDA l :
                    [l EXCEPT !.calls = @ + 1])
            ELSE Bind(message_bit([r.self EXCEPT !.ss = r.ret[1], !.es = r.ret[2]],
                                  r.ret[3][1]), LAMBDA s1 :
                 Bind(data_loop_continue(putx(s1, 0, "%d", <<r.ret[3][1]>>),
                                         decoded_data_bits + 1), LAMBDA l :
                    [l EXCEPT !.calls = @ + 1])))
    ELSE [self |-> s, n |-> decoded_data_bits, calls |-> 0]

\* the while loop of handle_data, entered with decoded_data_bits; calls counts the
\* one_bit calls it makes
RECURSIVE data_loop(_, _)
data_loop(s, decoded_data_bits) ==
    IF decoded_data_bits < 10
    THEN Bind(one_bit(s), LAMBDA r :
            IF Raised(r.self) THEN [self |-> r.self, n |-> decoded_data_bits, calls |-> 1]
            ELSE IF r.ret[3] = None
            THEN [self |-> r.self, n |-> decoded_data_bits, calls |-> 1]
            ELSE Bind(message_bit([r.self EXCEPT !.ss = r.ret[1], !.es = r.ret[2]],
                                  r.ret[3][1]), LAMBDA s1 :
                 Bind(data_loop(putx(s1, 0, "%d", <<r.ret[3][1]>>), decoded_data_bits + 1),
                      LAMBDA l :
                    [l EXCEPT !.calls = @ + 1])))
    ELSE [self |-> s, n |-> decoded_data_bits, calls |-> 0]

\* classify_frame taking the control bits from the message entries after the start bit
classify_frame_loop_bits(s, decoded_data_bits) ==
    IF ~(decoded_data_bits > 2) THEN s
    ELSE IF Len(s.message) < 4 THEN [s EXCEPT !.pc = "error"]
    ELSE
    Bind(s.message[2], LAMBDA m2 :
    Bind(s.message[3], LAMBDA m1 :
    Bind(s.message[4], LAMBDA m0 :
        IF m2[3] = 0
        THEN Bind(put(s, m2[1], m0[2], 1, "Data", <<>>), LAMBDA s1 :
             Bind(IF m1[3] = 1 THEN put(s1, m1[1], m1[2], 2, "End of record", <<>>) ELSE s1,
                  LAMBDA s2 :
                IF m0[3] = 1 THEN put(s2, m1[1], m1[2], 2, "Service request", <<>>) ELSE s2))
        ELSE IF m1[3] = 1
        THEN Bind(put(s, m2[1], m0[2], 1, "Identity", <<>>), LAMBDA s1 :
                IF m0[3] = 1 THEN put(s1, m1[1], m1[2], 2, "Service request", <<>>) ELSE s1)
        ELSE IF m0[3] = 1 THEN put(s, m2[1], m0[2], 1, "Command ready", <<>>)
        ELSE s)))

\* classify_frame with c1 and c0 exchanged in the Data branch
classify_frame_swapped(s, decoded_data_bits) ==
    IF ~(decoded_data_bits > 2) THEN s
    ELSE IF Len(s.message) < 3 THEN [s EXCEPT !.pc = "error"]
    ELSE
    Bind(s.message[1], LAMBDA m2 :
    Bind(s.message[2], LAMBDA m1 :
    Bind(s.message[3], LAMBDA m0 :
        IF m2[3] = 0
        THEN Bind(put(s, m2[1], m0[2], 1, "Data", <<>>), LAMBDA s1 :
             Bind(IF m0[3] = 1 THEN put(s1, m1[1], m1[2], 2, "End of record", <<>>) ELSE s1,
                  LAMBDA s2 :
                IF m1[3] = 1 THEN put(s2, m1[1], m1[2], 2, "Service request", <<>>) ELSE s2))
        ELSE IF m1[3] = 1
        THEN Bind(put(s, m2[1], m0[2], 1, "Identity", <<>>), LAMBDA s1 :
                IF m0[3] = 1 THEN put(s1, m1[1], m1[2], 2, "Service request", <<>>) ELSE s1)
        ELSE IF m0[3] = 1 THEN put(s, m2[1], m0[2], 1, "Command ready", <<>>)
        ELSE s)))

\* lines 186-199: the message class from the first three entries of the message
classify_frame(s, decoded_data_bits) ==
    IF ~(decoded_data_bits > 2) THEN s
    ELSE IF Len(s.message) < 3 THEN [s EXCEPT !.pc = "error"]
    ELSE
    Bind(s.message[1], LAMBDA m2 :
    Bind(s.message[2], LAMBDA m1 :
    Bind(s.message[3], LAMBDA m0 :
        IF m2[3] = 0
        THEN Bind(put(s, m2[1], m0[2], 1, "Data", <<>>), LAMBDA s1 :
             Bind(IF m1[3] = 1 THEN put(s1, m1[1], m1[2], 2, "End of record", <<>>) ELSE s1,
                  LAMBDA s2 :
                IF m0[3] = 1 THEN put(s2, m1[1], m1[2], 2, "Service request", <<>>) ELSE s2))
        ELSE IF m1[3] = 1
        THEN Bind(put(s, m2[1], m0[2], 1, "Identity", <<>>), LAMBDA s1 :
                IF m0[3] = 1 THEN put(s1, m1[1], m1[2], 2, "Service request", <<>>) ELSE s1)
        ELSE IF m0[3] = 1 THEN put(s, m2[1], m0[2], 1, "Command ready", <<>>)
        ELSE s)))

\* reduce(lambda a, b: (a << 1) | b, pbits), from the j-th bit on with a so far
RECURSIVE reduce_bits(_, _, _)
reduce_bits(payload, j, a) ==
    IF j > Len(payload) THEN a
    ELSE reduce_bits(payload, j + 1, BitOr(Shl(a, 1), payload[j][3]))

\* emit_payload with payload = self.message[2:]
emit_payload_from_2(s, decoded_data_bits) ==
    IF Raised(s) \/ decoded_data_bits # 10 THEN s
    ELSE Bind(SubSeq(s.message, 3, Len(s.message)), LAMBDA payload :
            IF Len(payload) < 8 THEN [s EXCEPT !.pc = "error"]
            ELSE put(s, payload[1][1], payload[8][2], 3, "%d %s",
                     <<reduce_bits(payload, 2, payload[1][3]),
                       reduce_bits(payload, 2, payload[1][3])>>))

\* lines 201-207: the payload byte from the entries of the message after the third;
\* the text "%d %s" % (p, ascii(chr(p))) is held as its format and the value p twice
emit_payload(s, decoded_data_bits) ==
    IF Raised(s) \/ decoded_data_bits # 10 THEN s
    ELSE Bind(SubSeq(s.message, 4, Len(s.message)), LAMBDA payload :
            IF Len(payload) < 8 THEN [s EXCEPT !.pc = "error"]
            ELSE put(s, payload[1][1], payload[8][2], 3, "%d %s",
                     <<reduce_bits(payload, 2, payload[1][3]),
                       reduce_bits(payload, 2, payload[1][3])>>))

\* handle_data whose loop is never entered
handle_data_noloop(s) ==
    Bind([self |-> [s EXCEPT !.state = "START"], n |-> 0, calls |-> 0], LAMBDA l :
        IF Raised(l.self) THEN [self |-> l.self, ret |-> l.n, calls |-> l.calls]
        ELSE Bind(classify_frame(l.self, l.n), LAMBDA s1 :
                [self |-> emit_payload(s1, l.n), ret |-> l.n, calls |-> l.calls]))

\* ret: decoded_data_bits when the loop ended; calls: the one_bit calls of the loop
handle_data(s) ==
    Bind(data_loop([s EXCEPT !.state = "START"], 0), LAMBDA l :
        IF Raised(l.self) THEN [self |-> l.self, ret |-> l.n, calls |-> l.calls]
        ELSE Bind(classify_frame(l.self, l.n), LAMBDA s1 :
                [self |-> emit_payload(s1, l.n), ret |-> l.n, calls |-> l.calls]))

(***************************************************************************)
(* Input streams.  An OOK stream is a train of pulses <<hi, lo>> (samples  *)
(* high, samples low) on channel 0 that starts low and ends with one more  *)
(* rising edge; an HP-IL stream is a train of bipolar pulses               *)
(* <<gap, polarity, a, b, c>> on two idle-high channels: gap samples idle, *)
(* then one channel low for a samples, both high for b, the other low for  *)
(* c.  Polarity -1 pulls channel 0 low first, +1 channel 1.                *)
(***************************************************************************)
RECURSIVE SumSeq(_, _, _)
SumSeq(q, lo, hi) ==
    IF lo > hi THEN 0
    ELSE IF lo = hi THEN q[lo]
    ELSE SumSeq(q, lo, (lo + hi) \div 2) + SumSeq(q, ((lo + hi) \div 2) + 1, hi)

OOKStream(gap0, pulses, tail) ==
    LET n   == Len(pulses)
        per == [j \in 1..n |-> pulses[j][1] + pulses[j][2]]
        T(i) == gap0 + SumSeq(per, 1, i - 1)
    IN  [ev  |-> [i \in 1..(2 * n + 1) |->
                    IF i % 2 = 1 THEN <<T((i + 1) \div 2), 0, 1>>
                    ELSE <<T(i \div 2) + pulses[i \div 2][1], 0, 0>>],
         len |-> T(n + 1) + tail]

HPILStream(pulses, tail) ==
    LET n   == Len(pulses)
        per == [j \in 1..n |-> pulses[j][1] + pulses[j][3] + pulses[j][4] + pulses[j][5]]
        T(j) == SumSeq(per, 1, j - 1) + pulses[j][1]
        first(j)  == IF pulses[j][2] < 0 THEN 0 ELSE 1
    IN  [ev  |-> [i \in 1..(4 * n) |->
                    LET j == ((i - 1) \div 4) + 1
                        q == (i - 1) % 4
                    IN  CASE q = 0 -> <<T(j), first(j), 0>>
                          [] q = 1 -> <<T(j) + pulses[j][3], first(j), 1>>
                          [] q = 2 -> <<T(j) + pulses[j][3] + pulses[j][4], 1 - first(j), 0>>
                          [] q = 3 -> <<T(j) + pulses[j][3] + pulses[j][4] + pulses[j][5],
                                        1 - first(j), 1>>],
         len |-> SumSeq(per, 1, n) + tail]

\* a stream cut after its first n samples: with n the time of a pin change the
\* stream ends just before it, with n one more the change is its last sample
CutAt(st, n) == [st EXCEPT !.len = n]

(***************************************************************************)
(* The inputs of the elegiant_eox9906 decoder.  A pulse kind is a letter:  *)
(* L a 482 us pulse with a long (1931 us) pause, S the same with a short   *)
(* (951 us) pause, X with a pause in neither window, W a pulse that is too *)
(* wide.  A frame is four L pulses and 32 L/S pulses, most significant bit *)
(* of each byte first.                                                     *)
(***************************************************************************)
MaxHistory == 2
TailLen == 3

Rates == {1000000, 4000000, 8000000}

PulseOf(kind, u) ==
    CASE kind = "L" -> <<482 * u, 1931 * u>>
      [] kind = "S" -> <<482 * u, 951 * u>>
      [] kind = "X" -> <<482 * u, 3001 * u>>
      [] kind = "W" -> <<902 * u, 1931 * u>>

OOKInput(kinds, rate) ==
    [rate |-> rate,
     st   |-> OOKStream(5, [j \in 1..Len(kinds) |-> PulseOf(kinds[j], rate \div 1000000)],
                        TailLen)]

ByteBits(b) == [i \in 1..8 |-> (b \div Pow2[8 - i]) % 2]

FrameKinds(bytes) ==
    [i \in 1..36 |->
        IF i <= 4 THEN "L"
        ELSE IF ByteBits(bytes[((i - 5) \div 8) + 1])[((i - 5) % 8) + 1] = 1 THEN "L" ELSE "S"]

BaseFrame == FrameKinds(<<13, 64, 0, 55>>)

ValidFrames ==
    {FrameKinds(<<b0, b1, b2, b3>>) :
        b0 \in {13, 0, 6}, b1 \in {64, 15, 255}, b2 \in {0, 240, 165}, b3 \in {55, 0, 255}}

FaultyFrames ==
    {[BaseFrame EXCEPT ![k] = f] : k \in 1..36, f \in {"X", "W"}}
    \cup {[BaseFrame EXCEPT ![k] = "S"] : k \in 1..4}

\* every sequence of 1..n segments of S, concatenated
RECURSIVE Histories(_, _)
Histories(S, n) ==
    IF n = 0 THEN {<<>>}
    ELSE LET H == Histories(S, n - 1) IN H \cup {h \o g : h \in H, g \in S}

OOKHistorySegs ==
    {<<"L", "L", "S", "L">>, <<"X">>, [BaseFrame EXCEPT ![23] = "X"], BaseFrame}

OOKFinalSegs == {FrameKinds(<<6, 255, 165, 255>>), <<"L", "S", "L", "L">>}

OOKTruncated ==
    LET full == OOKInput(BaseFrame, 1000000)
    IN  {[full EXCEPT !.st = CutAt(full.st, full.st.ev[i][1] + d)] :
            i \in 1..Len(full.st.ev), d \in {0, 1}}

OOKInputs ==
    {OOKInput(f, 1000000) : f \in ValidFrames \cup FaultyFrames}
    \cup {OOKInput(f, r) : f \in {BaseFrame, [BaseFrame EXCEPT ![23] = "X"]},
                           r \in Rates \ {1000000}}
    \cup {OOKInput(h \o g, 1000000) :
            h \in Histories(OOKHistorySegs, MaxHistory) \ {<<>>}, g \in OOKFinalSegs}
    \cup OOKTruncated

(***************************************************************************)
(* The inputs of the hpil decoder.  A frame is a start pair of two pulses  *)
(* of one polarity and ten more pulses, each after an idle gap; a pulse of *)
(* width w is measured as w samples.                                       *)
(***************************************************************************)
HPulse(gap, pol, w) == <<gap, pol, 40, 20, w - 60>>

StartPair(pol0, pol1, w0, w1) == <<HPulse(120, pol0, w0), HPulse(120, pol1, w1)>>

Polarity(b) == IF b = 1 THEN 1 ELSE -1

\* a start pair carrying the start bit, then a pulse for each further bit
HFrame(start, bits) ==
    StartPair(Polarity(start), Polarity(start), 100, 100)
    \o [j \in 1..Len(bits) |-> HPulse(120, Polarity(bits[j]), 100)]

HBase == HFrame(0, <<0, 0>> \o ByteBits(65))

HPILInput(pulses) == [rate |-> 1000000, st |-> HPILStream(pulses, 90 + TailLen)]

HStartPairs ==
    {StartPair(p0, p1, 100, w1) \o <<HPulse(120, 1, 100)>> :
        p0 \in {-1, 1}, p1 \in {-1, 1}, w1 \in {84, 85, 86, 100, 114, 115, 116}}
    \cup {StartPair(p, p, 200, w1) : p \in {-1, 1}, w1 \in {169, 170, 230, 231}}

HFullFrames ==
    {HFrame(c2, <<c1, c0>> \o ByteBits(b)) :
        c2 \in {0, 1}, c1 \in {0, 1}, c0 \in {0, 1}, b \in {65, 0, 255, 165, 128, 1}}

\* the j-th pulse of the frame comes after a gap of g samples
HShortFrames ==
    {[HFrame(c2, <<1, 1>> \o ByteBits(165)) EXCEPT ![j][1] = 50] : c2 \in {0, 1}, j \in 3..12}
    \cup {[HBase EXCEPT ![j][1] = g] : j \in {5, 12}, g \in {84, 85, 86}}

HPILHistorySegs == {StartPair(-1, 1, 100, 100), [HBase EXCEPT ![6][1] = 50], HBase}

HPILFinalSegs == {HFrame(1, <<0, 1>> \o ByteBits(65)), StartPair(1, 1, 100, 130)}

HPILTruncated ==
    LET full == HPILInput(HBase)
    IN  {[full EXCEPT !.st = CutAt(full.st, full.st.ev[i][1] + d)] :
            i \in 1..Len(full.st.ev), d \in {0, 1}}

HPILInputs ==
    {HPILInput(f) : f \in HStartPairs \cup HFullFrames \cup HShortFrames}
    \cup {HPILInput(h \o g) :
            h \in Histories(HPILHistorySegs, MaxHistory) \ {<<>>}, g \in HPILFinalSegs}
    \cup HPILTruncated

(***************************************************************************)
(* The decoders as a state machine.  self is the Decoder object together   *)
(* with its position in the stream, stream the input, decoder the module   *)
(* that runs, and last what the latest pass of the dispatch loop of        *)
(* decode() did: the handler, the number of annotations and the position   *)
(* on entry, and the handler's local results.                              *)
(***************************************************************************)
NewDecoder(rate, pins) ==
    [pc |-> "run", state |-> "START", samplerate |-> rate,
     samplenum |-> 0, matched |-> <<>>, pins |-> pins, cur |-> 0, k |-> 0, old |-> pins,
     ann |-> <<>>, ss |-> None, es |-> None, pulse_width |-> None,
     num_decoded_bits |-> None, message |-> <<>>]

NoHandler ==
    [op |-> "init", a0 |-> 0, cur0 |-> 0, state0 |-> "START", ret |-> None, meas |-> None]

Init ==
    \/ /\ decoder = "ook"
       /\ \E in \in OOKInputs : stream = in.st /\ self = NewDecoder(in.rate, <<0>>)
       /\ last = NoHandler
    \/ /\ decoder = "hpil"
       /\ \E in \in HPILInputs : stream = in.st /\ self = NewDecoder(in.rate, <<1, 1>>)
       /\ last = NoHandler

Handled(op, r, meas) ==
    /\ self' = r.self
    /\ last' = [op |-> op, a0 |-> Len(self.ann), cur0 |-> self.cur, state0 |-> self.state,
                ret |-> r.ret, meas |-> meas]
    /\ UNCHANGED <<decoder, stream>>

DecodeStart ==
    /\ decoder = "ook" /\ self.pc = "run" /\ self.state = "START"
    /\ \E r \in {decode_start(self)} : Handled("decode_start", r, None)

DecodeData ==
    /\ decoder = "ook" /\ self.pc = "run" /\ self.state = "DATA"
    /\ \E r \in {decode_data(self)} : Handled("decode_data", r, None)

HandleStart ==
    /\ decoder = "hpil" /\ self.pc = "run" /\ self.state = "START"
    /\ \E r \in {handle_start(self)} : Handled("handle_start", r, None)

\* handle_data returns nothing; last.ret keeps <<decoded_data_bits>> of its loop
HandleData ==
    /\ decoder = "hpil" /\ self.pc = "run" /\ self.state = "DATA"
    /\ \E r \in {handle_data(self)} :
          Handled("handle_data", [self |-> r.self, ret |-> <<r.ret>>], <<r.calls>>)

Next == DecodeStart \/ DecodeData \/ HandleStart \/ HandleData

Spec == Init /\ [][Next]_vars

\* the decode loop runs whenever it can
FairSpec == Spec /\ WF_vars(Next)

TypeOK ==
    /\ decoder \in {"ook", "hpil"}
    /\ self.pc \in {"run", "eof"}
    /\ self.state \in {"START", "DATA"}
    /\ self.cur \in 0..stream.len

(***************************************************************************)
(* try_decode_pulse on its own: one pulse whose on time and pause lie at,  *)
(* or up to EdgeSlack samples beside, the bounds of the windows.  q is the *)
(* number of samples in 0.1 ms.                                            *)
(***************************************************************************)
EdgeSlack == 1

Around(S) == {x + d : x \in S, d \in (0 - EdgeSlack)..EdgeSlack}

PulseInputs ==
    {[rate |-> r, st |-> OOKStream(3, << <<on + 1, pause + 1>> >>, TailLen)] :
        <<r, on, pause>> \in
            UNION {{r} \X (Around({3 * q, 7 * q}) \cup {5 * q})
                       \X (Around({8 * q, 12 * q, 18 * q, 22 * q})
                           \cup {1, 10 * q, 15 * q, 20 * q, 30 * q}) :
                   <<r, q>> \in {<<r, r \div 10000>> : r \in Rates}}}

InitPulse ==
    /\ decoder = "ook"
    /\ \E in \in PulseInputs : stream = in.st /\ self = NewDecoder(in.rate, <<0>>)
    /\ last = NoHandler

TryDecodePulse ==
    /\ decoder = "ook" /\ self.pc = "run" /\ last.op = "init"
    /\ \E r \in {try_decode_pulse(self)} : Handled("try_decode_pulse", r, r.meas)

SpecPulse == InitPulse /\ [][TryDecodePulse]_vars

(***************************************************************************)
(* decode_byte on its own, called once at the start of a stream of eight   *)
(* pulses and two more: every pulse classifies, or one of the eight does   *)
(* not, or the stream ends early.                                          *)
(***************************************************************************)
ByteKinds(b) == [i \in 1..8 |-> IF ByteBits(b)[i] = 1 THEN "L" ELSE "S"]

ByteInputs ==
    LET more == <<"L", "S">>
        full == OOKInput(ByteKinds(165) \o more, 1000000)
    IN  {OOKInput(ByteKinds(b) \o more, r) :
            b \in {0, 1, 13, 64, 128, 165, 254, 255}, r \in Rates}
        \cup {OOKInput([ByteKinds(b) EXCEPT ![k] = f] \o more, 1000000) :
                b \in {165, 90}, k \in 1..8, f \in {"X", "W"}}
        \cup {[full EXCEPT !.st = CutAt(full.st, full.st.ev[i][1] + d)] :
                i \in 1..Len(full.st.ev), d \in 0..(TailLen - 2)}

InitByte ==
    /\ decoder = "ook"
    /\ \E in \in ByteInputs : stream = in.st /\ self = NewDecoder(in.rate, <<0>>)
    /\ last = NoHandler

DecodeByte ==
    /\ decoder = "ook" /\ self.pc = "run" /\ last.op = "init"
    /\ \E r \in {decode_byte(self)} : Handled("decode_byte", r, None)

SpecByte == InitByte /\ [][DecodeByte]_vars

(***************************************************************************)
(* decode_payload on its own, over every value of bytes 1 and 2: last.meas *)
(* holds the four bytes, each with the span of its eight pulses.           *)
(***************************************************************************)
PayloadInputs ==
    {<< <<b0, 0, 7>>, <<b1, 8, 15>>, <<b2, 16, 23>>, <<b3, 24, 31>> >> :
        b0 \in {13}, b1 \in 0..255, b2 \in 0..255, b3 \in {55}}

InitPayload ==
    /\ decoder = "ook"
    /\ stream = [ev |-> <<>>, len |-> 32]
    /\ self = NewDecoder(1000000, <<0>>)
    /\ \E bs \in PayloadInputs : last = [NoHandler EXCEPT !.meas = bs]

DecodePayload ==
    /\ decoder = "ook" /\ self.pc = "run" /\ last.op = "init"
    /\ \E r \in {[self |-> decode_payload(self, last.meas[1], last.meas[2],
                                          last.meas[3], last.meas[4]),
                  ret  |-> None]} : Handled("decode_payload", r, last.meas)

SpecPayload == InitPayload /\ [][DecodePayload]_vars

(***************************************************************************)
(* one_pulse, one_pause and one_bit on their own, over three pulses with   *)
(* the second after a gap at, or one sample beside, the skip budget of     *)
(* one_pause for the pulse width w the decoder holds.  one_pause follows a *)
(* one_pulse, or a one_pause that a falling edge cut short; one_bit        *)
(* follows a one_pulse or a one_bit.                                       *)
(***************************************************************************)
BitInput(w, pulses) == [w |-> w, st |-> HPILStream(pulses, 90 + TailLen)]

BitInputs ==
    {BitInput(100, <<HPulse(120, p0, 100), HPulse(g, p1, 100), HPulse(120, p2, 100)>>) :
        p0 \in {-1, 1}, p1 \in {-1, 1}, p2 \in {-1, 1}, g \in {60, 84, 85, 86, 120}}
    \cup {BitInput(wg[1], <<HPulse(120, 1, 100), HPulse(wg[2], p1, 100), HPulse(120, -1, 100)>>) :
            wg \in {<<1, 1>>, <<1, 2>>, <<7, 4>>, <<7, 5>>, <<7, 6>>, <<101, 84>>, <<101, 85>>,
                    <<101, 86>>, <<200, 169>>, <<200, 170>>, <<200, 171>>},
            p1 \in {-1, 1}}
    \cup {BitInput(100, <<HPulse(120, p0, 100), <<50, p1, 40, b, 40>>, HPulse(120, 1, 100)>>) :
            p0 \in {-1, 1}, p1 \in {-1, 1}, b \in {20, 44, 45, 46, 100}}

InitBit ==
    /\ decoder = "hpil"
    /\ \E in \in BitInputs :
          /\ stream = in.st
          /\ self = [NewDecoder(1000000, <<1, 1>>) EXCEPT !.pulse_width = <<in.w>>]
    /\ last = NoHandler

OnePulse ==
    /\ decoder = "hpil" /\ self.pc = "run" /\ last.op \in {"init", "one_pause"}
    /\ \E r \in {one_pulse(self)} : Handled("one_pulse", r, r.waits)

OnePause ==
    /\ decoder = "hpil" /\ self.pc = "run"
    /\ last.op = "one_pulse" \/ (last.op = "one_pause" /\ ~last.ret[3])
    /\ \E r \in {one_pause(self)} : Handled("one_pause", r, None)

OneBit ==
    /\ decoder = "hpil" /\ self.pc = "run" /\ last.op \in {"one_pulse", "one_bit"}
    /\ \E r \in {one_bit(self)} : Handled("one_bit", r, r.parts)

SpecBit == InitBit /\ [][OnePulse \/ OnePause \/ OneBit]_vars

(***************************************************************************)
(* Properties.  The annotations of the latest handler are those after the  *)
(* first last.a0 ones.                                                     *)
(***************************************************************************)
AnnSince == SubSeq(self.ann, last.a0 + 1, Len(self.ann))

RowOf(anns, row) == SelectSeq(anns, LAMBDA a : a.row = row)

Annotation(ss, es, row, fmt, args) ==
    [ss |-> ss, es |-> es, row |-> row, fmt |-> fmt, args |-> args]

\* C1: a pass of decode_data completes a byte exactly when it emits a byte (row 1)
\* annotation, so at least one of its four decode_byte calls failed when fewer than
\* four were emitted; then the pass emits no row-2 (channel/battery, temperature,
\* humidity) annotation, and the state is START when decode_data returns.
C1_PartialFrameDiscard ==
    last.op = "decode_data" =>
        /\ Len(RowOf(AnnSince, 1)) = Cardinality({i \in 1..4 : last.ret[i] # None})
        /\ (\E i \in 1..4 : last.ret[i] = None) =>
              /\ RowOf(AnnSince, 2) = <<>>
              /\ self.pc = "run" => self.state = "START"

\* the third byte fails and the other three decode
C1_Witness ==
    /\ last.op = "decode_data" /\ self.pc = "run"
    /\ last.ret[3] = None
    /\ last.ret[1] # None /\ last.ret[2] # None /\ last.ret[4] # None

\* C2: a START attempt classifies four successive pulses as symbol 1 exactly when it
\* emits four row-0 annotations of value 1; it leaves the state DATA if and only if it
\* does, and then emits exactly one SOF annotation, on row 1, from the start of the
\* first pulse to the end of the fourth; in every other case it emits no SOF and the
\* state is START when decode_start returns.
C2_StartIffFourOnes ==
    last.op = "decode_start" =>
        LET bits == RowOf(AnnSince, 0)
            ok   == Len(bits) = 4 /\ \A j \in 1..4 : bits[j].args = <<1>>
        IN  /\ Len(bits) = Len(AnnSince) - (IF ok /\ self.pc = "run" THEN 1 ELSE 0)
            /\ self.pc = "run" =>
                  /\ self.state = "DATA" <=> ok
                  /\ self.state \in {"START", "DATA"}
                  /\ ok => AnnSince[5] = Annotation(bits[1].ss, bits[4].es, 1, "SOF", <<>>)

\* a valid preamble reaches DATA after an attempt that failed on a symbol 0
C2_Witness ==
    /\ last.op = "decode_start" /\ self.state = "DATA" /\ self.pc = "run"
    /\ last.a0 = 4 /\ self.ann[3].args = <<0>>
    /\ Len(AnnSince) = 5

\* the windows of the classifier over sample counts at the given rate: a duration of
\* n samples is 1000 * n / rate ms, which lies in [lo / 10, hi / 10] ms when
\* lo * rate <= 10000 * n <= hi * rate
InWindow(n, rate, lo, hi) == lo * rate <= 10000 * n /\ 10000 * n <= hi * rate

BelowWindowEnd(n, rate, hi) == 10000 * n < hi * rate

\* the symbol of a measured pulse when a pause of exactly 2.2 ms counts as long or not
Expected(meas, rate, closed) ==
    LET on    == meas[2] - meas[1]
        pause == meas[3] - meas[2]
    IN  IF ~InWindow(on, rate, 3, 7) THEN None
        ELSE IF InWindow(pause, rate, 18, 22) /\ (closed \/ BelowWindowEnd(pause, rate, 22))
        THEN <<1, meas[1], meas[3]>>
        ELSE IF InWindow(pause, rate, 8, 12) THEN <<0, meas[1], meas[3]>>
        ELSE None

\* C3 (as amended): at 1, 4 and 8 MHz a pulse with an on time in [0.3 ms, 0.7 ms] is
\* symbol 1 when its pause lies in [1.8 ms, 2.2 ms), the upper bound excluded, symbol 0
\* when its pause lies in [0.8 ms, 1.2 ms], and no match for every other pause; an on
\* time outside [0.3 ms, 0.7 ms] is no match.
C3_ClassifierWindows ==
    (last.op = "try_decode_pulse" /\ last.meas # None) =>
        last.ret = Expected(last.meas, self.samplerate, FALSE)

\* C3 as stated: the same with a pause of exactly 2.2 ms classified as symbol 1
C3_AsStated ==
    (last.op = "try_decode_pulse" /\ last.meas # None) =>
        last.ret = Expected(last.meas, self.samplerate, TRUE)

\* a pause of exactly 1.8 ms after an on time of exactly 0.7 ms, at 8 MHz, is symbol 1
C3_Witness ==
    /\ last.op = "try_decode_pulse" /\ last.meas # None
    /\ self.samplerate = 8000000
    /\ last.meas[2] - last.meas[1] = 5600
    /\ last.meas[3] - last.meas[2] = 14400
    /\ last.ret # None /\ last.ret[1] = 1

\* C4: when all four bytes of a frame decode (four byte annotations), exactly three
\* row-2 annotations follow them, in the order channel/battery over byte 0,
\* temperature over bytes 1 and 2, humidity over byte 3, with channel = b0 mod 4,
\* battery ok iff bit 3 of b0 is set, the temperature in tenths
\* (b1 mod 16) * 16 + (b2 div 16) mod 16 shown divided by 10, and humidity = b3;
\* bytes 13, 64, 0 give channel 1 and battery ok.
C4_PayloadFields ==
    (last.op = "decode_data" /\ Len(RowOf(AnnSince, 1)) = 4) =>
        LET B   == RowOf(AnnSince, 1)
            b0  == B[1].args[1]
            b1  == B[2].args[1]
            b2  == B[3].args[1]
            b3  == B[4].args[1]
            raw == ((b1 % 16) * 16) + ((b2 \div 16) % 16)
            n   == Len(self.ann)
        IN  /\ Len(RowOf(AnnSince, 2)) = 3
            /\ self.ann[n - 2] =
                  Annotation(B[1].ss, B[1].es, 2,
                             IF (b0 \div 8) % 2 = 1 THEN "ch%d batok" ELSE "ch%d batlow",
                             <<b0 % 4>>)
            /\ self.ann[n - 1] =
                  Annotation(B[2].ss, B[3].es, 2, "T%d.%dC", <<raw \div 10, raw % 10>>)
            /\ self.ann[n] = Annotation(B[4].ss, B[4].es, 2, "RH%d%%", <<b3>>)
            /\ (b0 = 13 /\ b1 = 64 /\ b2 = 0) =>
                  /\ self.ann[n - 2].fmt = "ch%d batok" /\ self.ann[n - 2].args = <<1>>
                  /\ self.ann[n - 1].args = <<0, 0>>
            /\ self.state = "START"

\* the frame preamble + 13, 64, 0, 55 is decoded
C4_Witness ==
    /\ last.op = "decode_data"
    /\ Len(RowOf(AnnSince, 1)) = 4
    /\ [j \in 1..4 |-> RowOf(AnnSince, 1)[j].args[1]] = <<13, 64, 0, 55>>
    /\ Len(RowOf(AnnSince, 2)) = 3

\* C5: handle_start reads two pulses <<start, end, polarity>> of widths w0 and w1 and
\* leaves the state DATA if and only if both have the same definite polarity and
\* |w0 - w1| * 100 / w0 <= 15; then pulse_width = w0 and exactly one bit (1 if the
\* polarity is positive, else 0) is in the message and is emitted as one row-0
\* annotation; otherwise the state is START and nothing is emitted.
C5_StartPair ==
    (last.op = "handle_start" /\ self.pc = "run") =>
        LET p0  == last.ret[1]
            p1  == last.ret[2]
            w0  == p0[2] - p0[1]
            w1  == p1[2] - p1[1]
            ok  == p0[3] # None /\ p0[3] = p1[3] /\ Abs(w0 - w1) * 100 <= 15 * w0
            bit == IF p0[3] = <<1>> THEN 1 ELSE 0
        IN  /\ self.state = "DATA" <=> ok
            /\ ok => /\ self.pulse_width = <<w0>>
                     /\ self.message = << <<p0[1], p1[2], bit>> >>
                     /\ AnnSince = << Annotation(p0[1], p1[2], 0, "%d", <<bit>>) >>
            /\ ~ok => self.state = "START" /\ AnnSince = <<>>

\* a pair of widths 100 and 86, 14% apart, is accepted
C5_Witness ==
    /\ last.op = "handle_start" /\ self.pc = "run" /\ self.state = "DATA"
    /\ last.ret[1][2] - last.ret[1][1] = 100
    /\ last.ret[2][2] - last.ret[2][1] = 86

\* the texts of a sequence of annotations
Texts(anns) == [j \in 1..Len(anns) |-> anns[j].fmt]

\* C6: a frame whose loop decoded more than two bits is classified from the first
\* three bits (c2, c1, c0) of its message: c2 = 0 is Data, with End of record iff
\* c1 = 1 and Service request iff c0 = 1; (1, 1, c0) is Identity, with Service request
\* iff c0 = 1; (1, 0, 1) is Command ready; (1, 0, 0) has no class annotation.  At most
\* one class (row 1) annotation is emitted, and none for a shorter frame.
C6_FrameClass ==
    (last.op = "handle_data" /\ self.pc = "run") =>
        LET c2    == self.message[1][3]
            c1    == self.message[2][3]
            c0    == self.message[3][3]
            class == Texts(RowOf(AnnSince, 1))
            flags == Texts(RowOf(AnnSince, 2))
            eor   == IF c1 = 1 THEN <<"End of record">> ELSE <<>>
            srq   == IF c0 = 1 THEN <<"Service request">> ELSE <<>>
        IN  /\ Len(class) <= 1
            /\ last.ret[1] <= 2 => class = <<>> /\ flags = <<>>
            /\ last.ret[1] > 2 =>
                  CASE c2 = 0 -> class = <<"Data">> /\ flags = eor \o srq
                    [] c2 = 1 /\ c1 = 1 -> class = <<"Identity">> /\ flags = srq
                    [] c2 = 1 /\ c1 = 0 /\ c0 = 1 -> class = <<"Command ready">> /\ flags = <<>>
                    [] OTHER -> class = <<>> /\ flags = <<>>

\* control bits (0, 1, 0): Data and End of record, no Service request
C6_Witness ==
    /\ last.op = "handle_data" /\ self.pc = "run" /\ last.ret[1] > 2
    /\ <<self.message[1][3], self.message[2][3], self.message[3][3]>> = <<0, 1, 0>>
    /\ Texts(RowOf(AnnSince, 2)) = <<"End of record">>

\* the integer whose binary digits, most significant first, are bits[from..to]
RECURSIVE BitsValue(_, _, _)
BitsValue(bits, from, to) ==
    IF to < from THEN 0 ELSE 2 * BitsValue(bits, from, to - 1) + bits[to][3]

\* C7: handle_data emits a payload (row 3) annotation if and only if its loop decoded
\* exactly 10 bits; the value is the integer formed, most significant bit first, from
\* the 8 message bits that follow the first three (the control bits), so it lies in
\* 0..255, and the annotation spans those 8 bits.
C7_Payload ==
    last.op = "handle_data" =>
        LET pay == RowOf(AnnSince, 3)
        IN  /\ Len(pay) = (IF last.ret[1] = 10 /\ self.pc = "run" THEN 1 ELSE 0)
            /\ Len(pay) = 1 =>
                  /\ Len(self.message) = 11
                  /\ pay[1].args[1] = BitsValue(self.message, 4, 11)
                  /\ pay[1].args[1] \in 0..255
                  /\ pay[1].ss = self.message[4][1] /\ pay[1].es = self.message[11][2]
                  /\ self.ann[Len(self.ann)] = pay[1]

\* payload bits 0, 1, 0, 0, 0, 0, 0, 1 (0x41) give 65
C7_Witness ==
    /\ last.op = "handle_data" /\ last.ret[1] = 10 /\ Len(self.message) = 11
    /\ [j \in 1..8 |-> self.message[3 + j][3]] = <<0, 1, 0, 0, 0, 0, 0, 1>>
    /\ RowOf(AnnSince, 3) # <<>>
    /\ RowOf(AnnSince, 3)[1].args[1] = 65

\* C8 (as amended): where the dispatch loop of the HP-IL decoder observes START after
\* a start-pair rejection the message is empty; after handle_data the message still
\* holds the start bit and the decoded bits of the frame and pulse_width its reference
\* width; where it observes DATA the message is the one start bit and pulse_width the
\* width of the first pulse of the start pair just read, whatever came before.
C8_TransientState ==
    (decoder = "hpil" /\ self.pc = "run") =>
        /\ (last.op = "handle_start" /\ self.state = "START") => self.message = <<>>
        /\ last.op = "handle_data" =>
              /\ self.state = "START"
              /\ Len(self.message) = 1 + last.ret[1]
              /\ self.pulse_width # None
        /\ self.state = "DATA" =>
              /\ last.op = "handle_start"
              /\ Len(self.message) = 1
              /\ self.pulse_width = <<last.ret[1][2] - last.ret[1][1]>>

\* C8 as stated: wherever the dispatch loop observes START, the message is empty and
\* pulse_width holds no value
C8_AsStated ==
    (decoder = "hpil" /\ self.pc = "run" /\ self.state = "START") =>
        self.message = <<>> /\ self.pulse_width = None

\* a rejected start pair after a frame: the message is empty, pulse_width is the frame's
C8_Witness ==
    /\ decoder = "hpil" /\ self.pc = "run"
    /\ last.op = "handle_start" /\ self.state = "START"
    /\ self.message = <<>> /\ self.pulse_width # None

\* the new annotation at position j is a byte: it follows the row-0 annotations of
\* eight pulses, spans them and carries their bits, most significant first
IsByteOfEight(anns, j) ==
    /\ j > 8
    /\ \A i \in (j - 8)..(j - 1) : anns[i].row = 0
    /\ anns[j] = Annotation(anns[j - 8].ss, anns[j - 1].es, 1, "%d",
                            <<BitsValue([i \in 1..8 |-> <<0, 0, anns[j - 9 + i].args[1]>>],
                                        1, 8)>>)

\* C9 (as amended): a frame attempt that does not end with the payload being decoded
\* emits no row-2 annotation.  When the preamble is invalid it emits row-0 annotations
\* only.  When the preamble is valid its SOF annotation has been emitted on row 1; then
\* a byte annotation is emitted on row 1 for every byte whose eight pulses all classify,
\* also when another byte of the frame fails, and nothing else but row-0 annotations.
C9_FailedFrameAnnotations ==
    /\ (last.op = "decode_start" /\ (self.pc = "eof" \/ self.state = "START")) =>
          \A j \in 1..Len(AnnSince) : AnnSince[j].row = 0
    /\ last.op = "decode_data" =>
          /\ last.a0 > 0 /\ self.ann[last.a0].fmt = "SOF" /\ self.ann[last.a0].row = 1
          /\ (\E i \in 1..4 : last.ret[i] = None) =>
                /\ \A j \in 1..Len(AnnSince) :
                      AnnSince[j].row = 0 \/ IsByteOfEight(AnnSince, j)
                /\ Len(RowOf(AnnSince, 1)) = Cardinality({i \in 1..4 : last.ret[i] # None})

\* C9 as stated: a frame attempt that does not end with the payload being decoded
\* produces row-0 annotations only: no SOF before its bytes, no byte annotation
C9_AsStated ==
    /\ (last.op = "decode_start" /\ (self.pc = "eof" \/ self.state = "START")) =>
          \A j \in 1..Len(AnnSince) : AnnSince[j].row = 0
    /\ (last.op = "decode_data" /\ \E i \in 1..4 : last.ret[i] = None) =>
          /\ \A j \in 1..Len(AnnSince) : AnnSince[j].row = 0
          /\ last.a0 > 0 => self.ann[last.a0].row = 0

\* the first two bytes of a frame are annotated and its third byte fails
C9_Witness ==
    /\ last.op = "decode_data" /\ self.pc = "run"
    /\ last.ret[1] # None /\ last.ret[2] # None /\ last.ret[3] = None
    /\ Len(RowOf(AnnSince, 1)) >= 2
    /\ RowOf(AnnSince, 2) = <<>>

\* C10: on every stream the decode loop eventually stops, and it stops only by a wait
\* raising at the end of the stream (no other exception, no return, no state other than
\* START and DATA); every pass of the dispatch loop that returns has advanced the
\* sample index, and the pass that does not return has consumed the rest of the stream.
C10_Termination ==
    /\ <>(self.pc = "eof")
    /\ [](self.pc \in {"run", "eof"} /\ self.state \in {"START", "DATA"})
    /\ [](self.pc = "eof" => self.cur = stream.len)
    /\ [][self'.cur > self.cur \/ (self'.pc = "eof" /\ self'.cur = stream.len)]_vars

\* a run that has passed through a DATA handler and stopped at the end of the stream
C10_Witness ==
    /\ self.pc = "eof" /\ self.cur = stream.len
    /\ last.cur0 < stream.len
    /\ \E j \in 1..Len(self.ann) : self.ann[j].row > 0

\* C11: decode_byte returns a value exactly when eight successive pulses classified
\* (eight row-0 annotations); then it emits one row-1 annotation after them, whose value
\* is the sum of bit_i * 2^(8 - i) over the eight pulses in order, lies in 0..255 and
\* spans the first pulse's start to the eighth pulse's end, and returns that value and
\* span.  When the k-th classification fails it returns no match, emits no row-1
\* annotation, leaves the state START and has read the stream up to the rising edge
\* that ends the k-th pulse's pause (pin change 2k + 1), no pulse further.
C11_ByteAssembly ==
    (last.op = "decode_byte" /\ self.pc = "run") =>
        LET bits == RowOf(self.ann, 0)
        IN  /\ last.ret # None <=> Len(bits) = 8
            /\ last.ret # None =>
                  /\ Len(self.ann) = 9
                  /\ IsByteOfEight(self.ann, 9)
                  /\ last.ret = <<self.ann[9].args[1], bits[1].ss, bits[8].es>>
                  /\ last.ret[1] \in 0..255
                  /\ last.ret[1] = BitsValue([i \in 1..8 |-> <<0, 0, bits[i].args[1]>>], 1, 8)
                  /\ self.k = 17
            /\ last.ret = None =>
                  /\ Len(bits) < 8
                  /\ self.ann = bits
                  /\ self.state = "START"
                  /\ self.k = (2 * (Len(bits) + 1)) + 1

\* the byte 1010 0101 decoded from eight pulses
C11_Witness ==
    /\ last.op = "decode_byte" /\ self.pc = "run"
    /\ last.ret # None /\ last.ret[1] = 165

\* C12: handle_data calls one_bit at most 10 times and stops at the first call that
\* fails (one call more than the bits decoded, unless 10 were decoded), without an
\* error; every decoded bit is appended to the message and emitted as one row-0
\* annotation; the state is START afterwards.  So the message never holds more than
\* 11 bits, and DATA is only ever observed right after handle_start.
C12_DataLoop ==
    decoder = "hpil" =>
        /\ self.pc \in {"run", "eof"}
        /\ Len(self.message) <= 11
        /\ (self.pc = "run" /\ self.state = "DATA") => last.op = "handle_start"
        /\ last.op = "handle_data" =>
              LET bits == RowOf(AnnSince, 0)
              IN  /\ last.state0 = "DATA"
                  /\ self.state = "START"
                  /\ last.ret[1] \in 0..10
                  /\ last.meas[1] <= 10
                  /\ last.meas[1] = IF last.ret[1] = 10 /\ self.pc = "run" THEN 10
                                    ELSE last.ret[1] + 1
                  /\ Len(bits) = last.ret[1]
                  /\ Len(self.message) = 1 + last.ret[1]
                  /\ \A j \in 1..last.ret[1] :
                        bits[j] = Annotation(self.message[j + 1][1], self.message[j + 1][2],
                                             0, "%d", <<self.message[j + 1][3]>>)

\* a frame cut short: the loop stopped after 4 bits, on its 5th one_bit call
C12_Witness ==
    /\ decoder = "hpil" /\ self.pc = "run" /\ last.op = "handle_data"
    /\ last.ret[1] = 4 /\ last.meas = <<5>>

\* the class and flag texts of a frame with control bits (c2, c1, c0), in the order
\* they are emitted
ClassOf(c2, c1, c0) ==
    IF c2 = 0
    THEN <<"Data">> \o (IF c1 = 1 THEN <<"End of record">> ELSE <<>>)
                    \o (IF c0 = 1 THEN <<"Service request">> ELSE <<>>)
    ELSE IF c1 = 1
    THEN <<"Identity">> \o (IF c0 = 1 THEN <<"Service request">> ELSE <<>>)
    ELSE IF c0 = 1 THEN <<"Command ready">>
    ELSE <<>>

\* the class and flag annotations of the latest handler
ClassAnns == SelectSeq(AnnSince, LAMBDA a : a.row \in {1, 2})

\* C13 (as amended): when the loop of handle_data has decoded at least 3 bits, the
\* control bits are the first three bits of the message: c2 is the bit that
\* handle_start recorded from the start pulse pair (the last annotation before the
\* pass), c1 and c0 are the first two bits decoded by the loop; the class annotation
\* runs from the start of the start pair to the end of the loop's second bit.
C13_ControlBits ==
    (last.op = "handle_data" /\ self.pc = "run" /\ last.ret[1] > 2) =>
        LET bits  == RowOf(AnnSince, 0)
            start == self.ann[last.a0]
        IN  /\ last.a0 > 0 /\ start.row = 0
            /\ self.message[1] = <<start.ss, start.es, start.args[1]>>
            /\ Texts(ClassAnns) = ClassOf(start.args[1], bits[1].args[1], bits[2].args[1])
            /\ \A j \in 1..Len(ClassAnns) :
                  ClassAnns[j].row = 1 => /\ ClassAnns[j].ss = start.ss
                                          /\ ClassAnns[j].es = bits[2].es

\* C13 as stated: the control bits are the first three bits decoded by the loop, the
\* start bit is not one of them
C13_AsStated ==
    (last.op = "handle_data" /\ self.pc = "run" /\ last.ret[1] > 2) =>
        LET bits == RowOf(AnnSince, 0)
        IN  /\ Texts(ClassAnns) = ClassOf(bits[1].args[1], bits[2].args[1], bits[3].args[1])
            /\ \A j \in 1..Len(ClassAnns) :
                  ClassAnns[j].row = 1 => /\ ClassAnns[j].ss = bits[1].ss
                                          /\ ClassAnns[j].es = bits[3].es

\* start bit 1, then 0, 1, 0 from the loop: Command ready, where the loop's first three
\* bits as control bits would give Data and End of record
C13_Witness ==
    /\ last.op = "handle_data" /\ self.pc = "run" /\ last.ret[1] > 2
    /\ self.ann[last.a0].args = <<1>>
    /\ self.message[2][3] = 0 /\ self.message[3][3] = 1 /\ self.message[4][3] = 0
    /\ Texts(ClassAnns) = <<"Command ready">>

\* the pin changes of the stream in the samples from to until - 1
ChangesIn(from, until) ==
    Cardinality({e \in 1..Len(stream.ev) : from <= stream.ev[e][1] /\ stream.ev[e][1] < until})

\* the first of the four decode_byte calls of the latest decode_data that returned
\* no match
FirstFailed == MinOf({i \in 1..4 : last.ret[i] = None})

\* C14: after a decode_byte call of a DATA pass has returned no match, no further
\* decode_byte call of that pass reads a pulse: the later calls return nothing, and
\* the pass has read the pulses it annotated on row 0 and the one that failed to
\* classify, two pin changes each, and no more.
C14_ResyncAfterFailure ==
    (last.op = "decode_data" /\ self.pc = "run" /\ \E i \in 1..4 : last.ret[i] = None) =>
        /\ \A j \in FirstFailed..4 : last.ret[j] = None
        /\ ChangesIn(last.cur0, self.cur) = 2 * (Len(RowOf(AnnSince, 0)) + 1)

\* the temperature, in tenths of a degree, shown by the second annotation of a payload
TempRaw == (10 * self.ann[2].args[1]) + self.ann[2].args[2]

\* C15 (as amended): over all byte values b1, b2 in 0..255 the temperature raw value
\* is an 8-bit quantity: 16 times the low four bits of b1 plus the high four bits of
\* b2, so it ranges over 0..255 tenths of a degree.
C15_TemperatureRange ==
    last.op = "decode_payload" =>
        /\ self.ann[2].fmt = "T%d.%dC"
        /\ TempRaw = (16 * (last.meas[2][1] % 16)) + (last.meas[3][1] \div 16)
        /\ TempRaw \in 0..255

\* C15 as stated: the raw value is a 12-bit quantity that ranges over 0..4095, so the
\* largest bytes give 4095 tenths of a degree
C15_AsStated ==
    (last.op = "decode_payload" /\ last.meas[2][1] = 255 /\ last.meas[3][1] = 255) =>
        TempRaw = 4095

\* the largest bytes give 255 tenths of a degree
C15_Witness ==
    /\ last.op = "decode_payload"
    /\ last.meas[2][1] = 255 /\ last.meas[3][1] = 255
    /\ TempRaw = 255

\* the pin change <<sample, channel, value>> at sample t, None when there is none
ChangeAt(t) ==
    LET E == {e \in 1..Len(stream.ev) : stream.ev[e][1] = t}
    IN  IF E = {} THEN None ELSE stream.ev[MinOf(E)]

\* C16 (as amended): after the initial falling edge is matched on one channel, the
\* second wait of one_pulse returns at the rising edge of that same channel, and the
\* third and the fourth at the falling and the rising edge of the other channel; the
\* pulse runs from the first of these edges to the last.
C16_PulseSteps ==
    (last.op = "one_pulse" /\ self.pc = "run") =>
        LET w == last.meas
            c == ChangeAt(w[1])[2]
        IN  /\ ChangeAt(w[1]) = <<w[1], c, 0>>
            /\ ChangeAt(w[2]) = <<w[2], c, 1>>
            /\ ChangeAt(w[3]) = <<w[3], 1 - c, 0>>
            /\ ChangeAt(w[4]) = <<w[4], 1 - c, 1>>
            /\ w[1] < w[2] /\ w[2] < w[3] /\ w[3] < w[4]
            /\ last.ret[1] = w[1] /\ last.ret[2] = w[4]

\* C16 as stated: the three waits after the initial falling edge return at a rising,
\* a falling and a rising edge of the channel that fell first
C16_AsStated ==
    (last.op = "one_pulse" /\ self.pc = "run") =>
        LET w == last.meas
            c == ChangeAt(w[1])[2]
        IN  /\ ChangeAt(w[1]) = <<w[1], c, 0>>
            /\ ChangeAt(w[2]) = <<w[2], c, 1>>
            /\ ChangeAt(w[3]) = <<w[3], c, 0>>
            /\ ChangeAt(w[4]) = <<w[4], c, 1>>

\* a pulse that starts with channel 1 falling and ends with channel 0 rising
C16_Witness ==
    /\ last.op = "one_pulse" /\ self.pc = "run"
    /\ ChangeAt(last.meas[1])[2] = 1
    /\ ChangeAt(last.meas[4]) = <<last.ret[2], 0, 1>>

\* C17: every one_pulse call that returns has polarity -1 or +1, given by the channel
\* of its initial falling edge: channel 0 gives -1, channel 1 gives +1.  So one_bit
\* returns no match exactly when its one_pause was not a valid pause, and otherwise
\* bit 1 for polarity +1 and bit 0 for polarity -1, from the start of the pause to the
\* end of the pulse.
C17_Polarity ==
    /\ (last.op = "one_pulse" /\ self.pc = "run") =>
          /\ last.ret[3] \in {<<-1>>, <<1>>}
          /\ last.ret[3] = <<1>> <=> ChangeAt(last.meas[1]) = <<last.ret[1], 1, 0>>
          /\ last.ret[3] = <<-1>> <=> ChangeAt(last.meas[1]) = <<last.ret[1], 0, 0>>
    /\ (last.op = "one_bit" /\ self.pc = "run") =>
          LET pause == last.meas[1]
              pulse == last.meas[2]
          IN  /\ pulse[3] \in {<<-1>>, <<1>>}
              /\ last.ret[3] = None <=> ~pause[3]
              /\ pause[3] => last.ret[3] = <<IF pulse[3] = <<1>> THEN 1 ELSE 0>>
              /\ last.ret[1] = pause[1] /\ last.ret[2] = pulse[2]

\* a one_bit that returns no match after a pause cut short, its pulse of polarity +1
C17_Witness ==
    /\ last.op = "one_bit" /\ self.pc = "run"
    /\ ~last.meas[1][3] /\ last.meas[2][3] = <<1>> /\ last.ret[3] = None

\* the skip budget of one_pause for pulse width w: floor(0.85 * w)
Budget(w) == (85 * w) \div 100

\* the samples after from and before until at which a channel falls
FallsIn(from, until) ==
    {stream.ev[e][1] : e \in {e \in 1..Len(stream.ev) :
                                /\ stream.ev[e][3] = 0
                                /\ from < stream.ev[e][1] /\ stream.ev[e][1] < until}}

\* C18: one_pause, called at sample start with pulse width w, reports a valid pause if
\* and only if no channel falls at a sample after start and before
\* start + floor(0.85 * w); then it returns at the sample where the budget has elapsed
\* (a fall at that very sample does not matter, nor does a rising edge before it);
\* otherwise it reports 'not a pause' at the first such falling edge.
C18_PauseBudget ==
    (last.op = "one_pause" /\ self.pc = "run") =>
        LET start == last.ret[1]
            until == start + Budget(self.pulse_width[1])
            falls == FallsIn(start, until)
        IN  /\ last.ret[3] <=> falls = {}
            /\ last.ret[3] => last.ret[2] = (IF until > start THEN until ELSE start + 1)
            /\ ~last.ret[3] => last.ret[2] = MinOf(falls)

\* a valid pause: a channel falls exactly when the budget has elapsed
C18_Witness ==
    /\ last.op = "one_pause" /\ self.pc = "run"
    /\ last.ret[3]
    /\ ChangeAt(last.ret[2]) # None /\ ChangeAt(last.ret[2])[3] = 0
    /\ last.ret[2] = last.ret[1] + Budget(self.pulse_width[1])

\* C19: the classified pulses of the OOK decoder, which are its row-0 annotations in
\* the order they are emitted, each have start < end, and each starts after the end of
\* the one before it, also across failed attempts: the spans do not overlap and the
\* sample indices increase.  Every annotation of another row spans pulses already
\* annotated.
C19_SampleOrder ==
    decoder = "ook" =>
        LET bits == RowOf(self.ann, 0)
        IN  /\ \A j \in 1..Len(bits) :
                  /\ bits[j].ss < bits[j].es
                  /\ j > 1 => bits[j - 1].es < bits[j].ss
            /\ \A j \in 1..Len(self.ann) :
                  self.ann[j].row > 0 =>
                      /\ self.ann[j].ss < self.ann[j].es
                      /\ \E i \in 1..(j - 1) : /\ self.ann[i].row = 0
                                               /\ self.ann[i].es = self.ann[j].es

\* a pulse that starts three samples after the end of the pulse before it, which is
\* one sample before the rising edge, and a later pulse after one that did not classify
C19_Witness ==
    /\ decoder = "ook"
    /\ LET bits == RowOf(self.ann, 0)
       IN  /\ Len(bits) > 8
           /\ bits[2].ss = bits[1].es + 3
           /\ \E j \in 2..Len(bits) : bits[j].ss > bits[j - 1].es + 1000

\* C20: whenever the dispatch loop of the HP-IL decoder is about to run handle_data,
\* the handler before was a handle_start that accepted its start pair, pulse_width is
\* the width w0 of the first pulse of that pair, a positive integer, and the message
\* holds exactly the start bit.  No handler ends in an error: one_pause never finds
\* pulse_width unset, and the width w0 that handle_start divides by is greater than 0
\* for every pair it reads, accepted or not.
C20_DataEntry ==
    decoder = "hpil" =>
        /\ self.pc # "error"
        /\ (last.op = "handle_start" /\ last.ret # None) => last.ret[1][2] > last.ret[1][1]
        /\ last.op = "handle_data" => last.state0 = "DATA"
        /\ (self.pc = "run" /\ self.state = "DATA") =>
              /\ last.op = "handle_start" /\ last.ret # None
              /\ self.pulse_width # None
              /\ self.pulse_width[1] \in Nat \ {0}
              /\ self.pulse_width[1] = last.ret[1][2] - last.ret[1][1]
              /\ Len(self.message) = 1
              /\ self.message[1][3] = (IF last.ret[1][3] = <<1>> THEN 1 ELSE 0)

\* DATA entered for a second frame, with the pulse width of its own start pair
C20_Witness ==
    /\ decoder = "hpil" /\ self.pc = "run" /\ self.state = "DATA"
    /\ \E j \in 1..Len(self.ann) : self.ann[j].row = 3
    /\ self.pulse_width = <<100>> /\ Len(self.message) = 1

====
